---- MODULE Spec2Model ----
(***************************************************************************)
(* A model of the coremidi packet list encoder/decoder (src/packets.rs)   *)
(* and of the notification decoder (src/notifications.rs).                *)
(*                                                                         *)
(* Memory is modelled at byte level.  A PacketBuffer owns a Vec<u8>; byte  *)
(* offsets are 0-based (offset k is element k+1 of the sequence).  The    *)
(* allocation's base address is taken to be a multiple of 4, so that an   *)
(* address and its offset have the same alignment.  All targets of the    *)
(* crate are little-endian.  A 64-bit timestamp is carried as four 16-bit *)
(* limbs <<w3, w2, w1, w0>> (most significant first).                     *)
(***************************************************************************)
EXTENDS Integers, Sequences, FiniteSets, TLC

VARIABLES
    align,      \* mem::align_of::<Packet>() of the build: 4 on arm/aarch64, else 1
    junk,       \* value read from a byte that is not an initialised byte of the Vec
    data,       \* PacketBuffer::data, the bytes of the Vec<u8> (its len is Len(data))
    cap,        \* capacity of the Vec<u8>
    alloc,      \* identity of the heap allocation backing the Vec<u8>
    status,     \* "alive", or how the last with_data aborted
    arg,        \* the arguments of the last with_data call
    appended,   \* history: the (timestamp, bytes) pairs appended so far
    written,    \* history: the offset at which each of them was written
    iters,      \* the outstanding PacketListIterator values
    notif,      \* the MIDINotification handed to Notification::try_from
    result      \* what Notification::try_from returned

vars == <<align, junk, data, cap, alloc, status, arg, appended, written, iters, notif, result>>

(***************************************************************************)
(* Bounds of the model.                                                    *)
(***************************************************************************)
MaxAppends == 2

MaxIters == 2

(***************************************************************************)
(* Constants of the program.                                               *)
(***************************************************************************)
MAX_PACKET_DATA_LENGTH == 65535

PACKET_LIST_HEADER_SIZE == 4

PACKET_HEADER_SIZE == 8 + 2

\* coremidi_sys::MIDIPacket declares `data: [u8; 256]`; with_data indexes it.
MIDIPacketDataSize == 256

(***************************************************************************)
(* Byte-level helpers.                                                     *)
(***************************************************************************)
\* A store of a u16 (native = little-endian byte order).
LE16BE(v) == <<v \div 256, v % 256>>

LE16(v) == <<v % 256, v \div 256>>

\* A store of a u32 whose value is below 2^31.
LE32(v) == <<v % 256, (v \div 256) % 256, (v \div 65536) % 256, (v \div 16777216) % 256>>

\* A store of a u64 given as limbs <<w3, w2, w1, w0>>.
LE64BE(t) == LE16BE(t[1]) \o LE16BE(t[2]) \o LE16BE(t[3]) \o LE16BE(t[4])

LE64(t) == LE16(t[4]) \o LE16(t[3]) \o LE16(t[2]) \o LE16(t[1])

\* The byte at offset off of buf; a byte outside the Vec's len is unspecified.
ByteAt(buf, off) == IF off < Len(buf) THEN buf[off + 1] ELSE junk

ReadU16(buf, off) == ByteAt(buf, off) + 256 * ByteAt(buf, off + 1)

ReadU32(buf, off) == ReadU16(buf, off) + 65536 * ReadU16(buf, off + 2)

ReadU64(buf, off) ==
    <<ReadU16(buf, off + 6), ReadU16(buf, off + 4), ReadU16(buf, off + 2), ReadU16(buf, off)>>

\* buf with bytes written at offsets off .. off + Len(bytes) - 1 (inside buf).
WriteAt(buf, off, bytes) ==
    [i \in 1..Len(buf) |->
        IF i > off /\ i <= off + Len(bytes) THEN bytes[i - off] ELSE buf[i]]

\* n bytes of fresh, uninitialised Vec storage (Vec::set_len beyond the old len).
Uninit(n) == [i \in 1..n |-> junk]

(***************************************************************************)
(* Inputs.                                                                 *)
(***************************************************************************)
\* 0xF0, zeros, 0xF7: a system-exclusive message of n >= 2 bytes.
Sysex(n) == [i \in 1..n |-> IF i = 1 THEN 240 ELSE IF i = n THEN 247 ELSE 0]

Payloads ==
    { <<>>, <<144, 64>>, <<144, 64, 127>>,
      Sysex(MIDIPacketDataSize), Sysex(MIDIPacketDataSize + 1),
      Sysex(MAX_PACKET_DATA_LENGTH), Sysex(MAX_PACKET_DATA_LENGTH + 1) }

\* 0 ("now") and 0x0102030405060708.
Timestamps == { <<0, 0, 0, 0>>, <<258, 772, 1286, 1800>> }

JunkBytes == {0, 255}

(***************************************************************************)
(* Packet and PacketList: views of bytes at an offset of a buffer.         *)
(***************************************************************************)
\* Packet::timestamp of the packet at offset p.
timestamp(buf, p) == ReadU64(buf, p)

\* Packet::data of the packet at offset p: length bytes after the header.
data_(buf, p) ==
    [i \in 1..ReadU16(buf, p + 8) |-> ByteAt(buf, p + PACKET_HEADER_SIZE + i - 1)]

\* PacketList::length: num_packets, the u32 at the start of the list.
length(buf) == ReadU32(buf, 0)

\* coremidi_sys::MIDIPacketNext: the address after the packet's data, rounded
\* up to a multiple of 4 on arm/aarch64.
MIDIPacketNext(buf, p) ==
    LET end == p + PACKET_HEADER_SIZE + ReadU16(buf, p + 8)
    IN  IF align = 4 THEN ((end + 3) \div 4) * 4 ELSE end

\* PacketList::iter: count and packet_ptr are the iterator's fields.  The
\* other fields are history: the allocation and the Vec len of the list the
\* iterator borrows (its lifetime 'a), the packets it returned as
\* Some(packet), and whether it has returned None.
iter_resumed(buf) ==
    IF iters = <<>>
    THEN [count |-> length(buf), packet_ptr |-> PACKET_LIST_HEADER_SIZE,
          of_alloc |-> alloc, of_len |-> Len(buf), yielded |-> <<>>, ended |-> FALSE]
    ELSE [count |-> iters[Len(iters)].count, packet_ptr |-> iters[Len(iters)].packet_ptr,
          of_alloc |-> alloc, of_len |-> Len(buf), yielded |-> <<>>, ended |-> FALSE]

iter(buf) ==
    [count |-> length(buf), packet_ptr |-> PACKET_LIST_HEADER_SIZE,
     of_alloc |-> alloc, of_len |-> Len(buf), yielded |-> <<>>, ended |-> FALSE]

\* PacketListIterator::next: the iterator after the call.
next_nodec(it, buf) ==
    IF it.count > 0
    THEN [it EXCEPT !.packet_ptr = MIDIPacketNext(buf, it.packet_ptr),
                    !.yielded = Append(it.yielded, it.packet_ptr)]
    ELSE [it EXCEPT !.ended = TRUE]

next_unrounded(it, buf) ==
    IF it.count > 0
    THEN [it EXCEPT !.count = it.count - 1,
                    !.packet_ptr = it.packet_ptr + PACKET_HEADER_SIZE
                                       + ReadU16(buf, it.packet_ptr + 8),
                    !.yielded = Append(it.yielded, it.packet_ptr)]
    ELSE [it EXCEPT !.ended = TRUE]

next(it, buf) ==
    IF it.count > 0
    THEN [it EXCEPT !.count = it.count - 1,
                    !.packet_ptr = MIDIPacketNext(buf, it.packet_ptr),
                    !.yielded = Append(it.yielded, it.packet_ptr)]
    ELSE [it EXCEPT !.ended = TRUE]

(***************************************************************************)
(* PacketBuffer.                                                           *)
(***************************************************************************)
\* PacketBuffer::new: a Vec of capacity 17 and len 4 whose four bytes
\* MIDIPacketListInit sets to numPackets = 0.
new_uninit == Uninit(PACKET_LIST_HEADER_SIZE)

new == WriteAt(Uninit(PACKET_LIST_HEADER_SIZE), 0, LE32(0))

new_capacity == PACKET_LIST_HEADER_SIZE + PACKET_HEADER_SIZE + 3

\* Vec::reserve(additional): the capacity afterwards (amortised doubling).
reserve(capacity, len, additional) ==
    IF capacity - len >= additional THEN capacity
    ELSE IF 2 * capacity > len + additional THEN 2 * capacity ELSE len + additional

\* Moving the PacketBuffer into with_data (`mut self`) needs that no borrow of
\* it is alive: every iterator made from it (PacketListIterator<'a>, with the
\* &'a Packet values it returned) must have been dropped.
can_move_always(its) == TRUE

can_move(its) == its = <<>>

\* The assertion at the head of with_data.
assert_len_le(data_len) == data_len <= MAX_PACKET_DATA_LENGTH

assert_len(data_len) == data_len < MAX_PACKET_DATA_LENGTH

\* The bounds check of `pkt.data[0..data_len]` on MIDIPacket's [u8; 256].
index_ok(data_len) == data_len <= MIDIPacketDataSize

\* The offset of the MIDIPacket that with_data writes: total_len, the len of
\* the Vec before it grows (`&self.data[total_len]`).
pkt_offset_first(buf) == PACKET_LIST_HEADER_SIZE

pkt_offset(buf) == Len(buf)

\* with_data up to the write of the header fields: the Vec has grown by
\* header + data_len bytes and timeStamp and length are stored at total_len,
\* the old len, whatever its alignment (the stores are taken to land there
\* also when total_len is not a multiple of align).
with_data_header(buf, ts, bytes) ==
    LET data_len        == Len(bytes)
        additional_size == PACKET_HEADER_SIZE + data_len
        total_len       == pkt_offset(buf)
        grown           == buf \o Uninit(additional_size)
        d1              == WriteAt(grown, total_len, LE64(ts))
    IN  WriteAt(d1, total_len + 8, LE16(data_len % 65536))

\* The increment of numPackets through the Vec's current start address.
bump_skip(buf) == buf

bump(buf) == WriteAt(buf, 0, LE32(ReadU32(buf, 0) + 1))

\* with_data when it returns: the data copied in and numPackets incremented.
with_data(buf, ts, bytes) ==
    bump(WriteAt(with_data_header(buf, ts, bytes),
                 Len(buf) + PACKET_HEADER_SIZE, bytes))

(***************************************************************************)
(* The state machine of a PacketBuffer and the iterators over it.          *)
(***************************************************************************)
NoNotif == [messageID |-> 0]

NoResult == [tag |-> "none"]

NoArg == [timestamp |-> <<0, 0, 0, 0>>, len |-> 0]

\* let buf = PacketBuffer::new(), on either kind of platform.
Init ==
    /\ align \in {1, 4}
    /\ junk \in JunkBytes
    /\ data = new
    /\ cap = new_capacity
    /\ alloc = 0
    /\ status = "alive"
    /\ arg = NoArg
    /\ appended = <<>>
    /\ written = <<>>
    /\ iters = <<>>
    /\ notif = NoNotif
    /\ result = NoResult

\* buf = buf.with_data(ts, bytes) where the assertion fails.
WithDataAssertFails ==
    \E ts \in Timestamps, bytes \in Payloads :
        /\ status = "alive"
        /\ Len(appended) < MaxAppends
        /\ can_move(iters)
        /\ ~assert_len(Len(bytes))
        /\ arg' = [timestamp |-> ts, len |-> Len(bytes)]
        /\ status' = "assert_failed"
        /\ UNCHANGED <<align, junk, data, cap, alloc, appended, written, iters, notif, result>>

\* buf = buf.with_data(ts, bytes) where the slice index is out of range: the
\* panic leaves the Vec grown, with the header written and the data not.
WithDataIndexFails ==
    \E ts \in Timestamps, bytes \in Payloads :
        /\ status = "alive"
        /\ Len(appended) < MaxAppends
        /\ can_move(iters)
        /\ assert_len(Len(bytes))
        /\ ~index_ok(Len(bytes))
        /\ arg' = [timestamp |-> ts, len |-> Len(bytes)]
        /\ cap' = reserve(cap, Len(data), PACKET_HEADER_SIZE + Len(bytes))
        /\ alloc' = IF cap' = cap THEN alloc ELSE alloc + 1
        /\ data' = with_data_header(data, ts, bytes)
        /\ status' = "index_failed"
        /\ UNCHANGED <<align, junk, appended, written, iters, notif, result>>

\* buf = buf.with_data(ts, bytes) returning the buffer with one more packet.
WithData ==
    \E ts \in Timestamps, bytes \in Payloads :
        /\ status = "alive"
        /\ Len(appended) < MaxAppends
        /\ can_move(iters)
        /\ assert_len(Len(bytes))
        /\ index_ok(Len(bytes))
        /\ arg' = [timestamp |-> ts, len |-> Len(bytes)]
        /\ cap' = reserve(cap, Len(data), PACKET_HEADER_SIZE + Len(bytes))
        /\ alloc' = IF cap' = cap THEN alloc ELSE alloc + 1
        /\ data' = with_data(data, ts, bytes)
        /\ appended' = Append(appended, [timestamp |-> ts, bytes |-> bytes])
        /\ written' = Append(written, pkt_offset(data))
        /\ UNCHANGED <<align, junk, status, iters, notif, result>>

\* let it = buf.iter()   (through Deref to PacketList)
Iter ==
    /\ status = "alive"
    /\ Len(iters) < MaxIters
    /\ iters' = Append(iters, iter(data))
    /\ UNCHANGED <<align, junk, data, cap, alloc, status, arg, appended, written, notif, result>>

\* it.next()
IterNext ==
    \E i \in 1..Len(iters) :
        /\ iters' = [iters EXCEPT ![i] = next(iters[i], data)]
        /\ UNCHANGED <<align, junk, data, cap, alloc, status, arg, appended, written, notif, result>>

\* drop(it): the borrow ends.
IterDrop ==
    \E i \in 1..Len(iters) :
        /\ iters' = [j \in 1..(Len(iters) - 1) |-> IF j < i THEN iters[j] ELSE iters[j + 1]]
        /\ UNCHANGED <<align, junk, data, cap, alloc, status, arg, appended, written, notif, result>>

Next ==
    \/ WithData
    \/ WithDataAssertFails
    \/ WithDataIndexFails
    \/ Iter
    \/ IterNext
    \/ IterDrop

Spec == Init /\ [][Next]_vars

(***************************************************************************)
(* Notification::try_from (src/notifications.rs).                          *)
(*                                                                         *)
(* A u32 is carried as two 16-bit limbs <<hi, lo>>.                        *)
(***************************************************************************)
kMIDIMsgSetupChanged == 1

kMIDIMsgObjectAdded == 2

kMIDIMsgObjectRemoved == 3

kMIDIMsgPropertyChanged == 4

kMIDIMsgThruConnectionsChanged == 5

kMIDIMsgSerialPortOwnerChanged == 6

kMIDIMsgIOError == 7

\* `x as c_uint` of an i32 x, and `u as OSStatus` (i32) of a u32 u.
as_c_uint(x) == <<(x \div 65536) % 65536, x % 65536>>

as_OSStatus(u) == (IF u[1] >= 32768 THEN u[1] - 65536 ELSE u[1]) * 65536 + u[2]

Ok(v) == [tag |-> "Ok", value |-> v]

Err(e) == [tag |-> "Err", err |-> e]

\* ObjectType::try_from(i32): the MIDIObjectType values that name a variant.
ObjectType_try_from(t) ==
    CASE t = -1 -> Ok("Other")
      [] t = 0  -> Ok("Device")
      [] t = 1  -> Ok("Entity")
      [] t = 2  -> Ok("Source")
      [] t = 3  -> Ok("Destination")
      [] t = 16 -> Ok("ExternalDevice")
      [] t = 17 -> Ok("ExternalEntity")
      [] t = 18 -> Ok("ExternalSource")
      [] t = 19 -> Ok("ExternalDestination")
      [] OTHER  -> Err(t)

try_from_object_added_removed_parent_only(n) ==
    LET parent_type == ObjectType_try_from(n.parentType)
        child_type  == ObjectType_try_from(n.childType)
        info == [parent |-> n.parent, parent_type |-> parent_type.value,
                 child |-> n.child,
                 child_type |-> IF child_type.tag = "Ok" THEN child_type.value ELSE "Other"]
    IN  IF parent_type.tag = "Ok"
        THEN CASE as_c_uint(n.messageID) = as_c_uint(kMIDIMsgObjectAdded) ->
                    Ok([variant |-> "ObjectAdded", info |-> info])
               [] as_c_uint(n.messageID) = as_c_uint(kMIDIMsgObjectRemoved) ->
                    Ok([variant |-> "ObjectRemoved", info |-> info])
               [] OTHER -> [tag |-> "unreachable"]
        ELSE Err(n.messageID)

try_from_object_added_removed(n) ==
    LET parent_type == ObjectType_try_from(n.parentType)
        child_type  == ObjectType_try_from(n.childType)
        info == [parent |-> n.parent, parent_type |-> parent_type.value,
                 child |-> n.child, child_type |-> child_type.value]
    IN  IF parent_type.tag = "Ok" /\ child_type.tag = "Ok"
        THEN CASE as_c_uint(n.messageID) = as_c_uint(kMIDIMsgObjectAdded) ->
                    Ok([variant |-> "ObjectAdded", info |-> info])
               [] as_c_uint(n.messageID) = as_c_uint(kMIDIMsgObjectRemoved) ->
                    Ok([variant |-> "ObjectRemoved", info |-> info])
               [] OTHER -> [tag |-> "unreachable"]
        ELSE Err(n.messageID)

try_from_property_changed(n) ==
    LET object_type == ObjectType_try_from(n.objectType)
    IN  IF object_type.tag = "Ok"
        THEN Ok([variant |-> "PropertyChanged",
                 info |-> [object |-> n.object, object_type |-> object_type.value,
                           property_name |-> n.propertyName]])
        ELSE Err(n.messageID)

from_io_error(n) ==
    [variant |-> "IoError",
     info |-> [driver_device |-> n.driverDevice, error_code |-> n.errorCode]]

try_from_swapped(n) ==
    LET id == as_c_uint(n.messageID)
    IN  CASE id = as_c_uint(kMIDIMsgSetupChanged) -> Ok([variant |-> "SetupChanged"])
          [] id = as_c_uint(kMIDIMsgObjectAdded) \/ id = as_c_uint(kMIDIMsgObjectRemoved) ->
                try_from_object_added_removed(n)
          [] id = as_c_uint(kMIDIMsgPropertyChanged) -> try_from_property_changed(n)
          [] id = as_c_uint(kMIDIMsgThruConnectionsChanged) ->
                Ok([variant |-> "SerialPortOwnerChanged"])
          [] id = as_c_uint(kMIDIMsgSerialPortOwnerChanged) ->
                Ok([variant |-> "ThruConnectionsChanged"])
          [] id = as_c_uint(kMIDIMsgIOError) -> Ok(from_io_error(n))
          [] OTHER -> Err(as_OSStatus(id))

try_from(n) ==
    LET id == as_c_uint(n.messageID)
    IN  CASE id = as_c_uint(kMIDIMsgSetupChanged) -> Ok([variant |-> "SetupChanged"])
          [] id = as_c_uint(kMIDIMsgObjectAdded) \/ id = as_c_uint(kMIDIMsgObjectRemoved) ->
                try_from_object_added_removed(n)
          [] id = as_c_uint(kMIDIMsgPropertyChanged) -> try_from_property_changed(n)
          [] id = as_c_uint(kMIDIMsgThruConnectionsChanged) ->
                Ok([variant |-> "ThruConnectionsChanged"])
          [] id = as_c_uint(kMIDIMsgSerialPortOwnerChanged) ->
                Ok([variant |-> "SerialPortOwnerChanged"])
          [] id = as_c_uint(kMIDIMsgIOError) -> Ok(from_io_error(n))
          [] OTHER -> Err(as_OSStatus(id))

\* The notifications delivered: every message ID from -1 to 8, 0x1000 and
\* 0xffff, with object types among Other, Device, ExternalDestination and
\* the value 0xffff that names no ObjectType.
MessageIDs == (-1..8) \cup {4096, 65535}

ObjectTypeValues == {-1, 0, 19, 65535}

Notifications ==
    [messageID : MessageIDs,
     parent : {1}, parentType : ObjectTypeValues,
     child : {2}, childType : ObjectTypeValues,
     object : {1}, objectType : ObjectTypeValues, propertyName : {"name"},
     driverDevice : {1, 2}, errorCode : {123}]

\* The system delivers one notification to the client's callback ...
Deliver ==
    \E n \in Notifications :
        /\ notif = NoNotif
        /\ notif' = n
        /\ UNCHANGED <<result, align, junk, data, cap, alloc, status, arg, appended, written, iters>>

\* ... which converts it with Notification::try_from.
Convert ==
    /\ notif # NoNotif
    /\ result = NoResult
    /\ result' = try_from(notif)
    /\ UNCHANGED <<notif, align, junk, data, cap, alloc, status, arg, appended, written, iters>>

NextNotif ==
    \/ Deliver
    \/ Convert

\* The packet buffer is not involved: one platform is enough.
InitNotif == Init /\ align = 1 /\ junk = 0

SpecNotif == InitNotif /\ [][NextNotif]_vars

(***************************************************************************)
(* Definitions used to state the properties.                               *)
(***************************************************************************)
\* The (timestamp, data) pairs of the packets an iterator has returned.
Decoded(buf, it) ==
    [i \in 1..Len(it.yielded) |->
        [timestamp |-> timestamp(buf, it.yielded[i]), bytes |-> data_(buf, it.yielded[i])]]

\* An iterator driven until it has returned all its packets.
RECURSIVE RunIter(_, _)
RunIter(it, buf) == IF it.count = 0 THEN it ELSE RunIter(next(it, buf), buf)

\* What iterating a packet list yields, in order.
Iterate(buf) == Decoded(buf, RunIter(iter(buf), buf))

\* Byte k (0 = least significant) of a timestamp <<w3, w2, w1, w0>>.
TsByte(t, k) ==
    LET w == t[4 - (k \div 2)] IN IF k % 2 = 0 THEN w % 256 ELSE w \div 256

\* Section 6 of the specification: one record, and the number of padding
\* bytes after a record of the given length for record alignment A.
RefRecord(r) ==
    [k \in 1..8 |-> TsByte(r.timestamp, k - 1)]
        \o <<Len(r.bytes) % 256, Len(r.bytes) \div 256>> \o r.bytes

RefPadding(A, len) == IF A = 4 THEN (4 - ((10 + len) % 4)) % 4 ELSE 0

RECURSIVE RefRecords(_, _)
RefRecords(recs, A) ==
    IF recs = <<>> THEN <<>>
    ELSE RefRecord(Head(recs))
            \o (IF Len(recs) > 1
                THEN [i \in 1..RefPadding(A, Len(Head(recs).bytes)) |-> 0] ELSE <<>>)
            \o RefRecords(Tail(recs), A)

\* The reference encoder: the count, then the records with padding between
\* consecutive records.
RefEncode(recs, A) == <<Len(recs), 0, 0, 0>> \o RefRecords(recs, A)

(***************************************************************************)
(* C1.  After N successful with_data calls on PacketBuffer::new(), the     *)
(* first four bytes of the buffer hold the count N and length() of the     *)
(* dereferenced view is N.                                                 *)
(***************************************************************************)
C1_CountIsNumberOfAppends ==
    status = "alive" =>
        /\ SubSeq(data, 1, 4) = <<Len(appended), 0, 0, 0>>
        /\ length(data) = Len(appended)

C1_Witness == status = "alive" /\ Len(appended) = 2 /\ length(data) = 2

(***************************************************************************)
(* C2.  Iterating the builder's view yields exactly the appended records:  *)
(* as many as were appended, in append order, each with the timestamp and  *)
(* the data bytes that were appended.                                      *)
(***************************************************************************)
C2_IterationYieldsAppended ==
    \A k \in 1..Len(iters) :
        /\ iters[k].count = 0 => Len(iters[k].yielded) = Len(appended)
        /\ Len(iters[k].yielded) <= Len(appended)
        /\ \A i \in 1..Len(iters[k].yielded) : Decoded(data, iters[k])[i] = appended[i]

(***************************************************************************)
(* C3.  A with_data call with a payload of 65535 bytes or more aborts, and *)
(* at the abort the buffer's bytes and length (and so the record count and *)
(* every existing record) are what they were before the call.              *)
(***************************************************************************)
C3_OversizeAbortsUnmodified ==
    [][ ( /\ status = "alive"
          /\ (status' # status \/ appended' # appended)
          /\ arg'.len >= 65535 )
        => (status' # "alive" /\ data' = data /\ appended' = appended) ]_vars

C3_Witness ==
    /\ status = "assert_failed"
    /\ arg.len >= 65535
    /\ Len(appended) >= 1
    /\ data = RefEncode(appended, 1)

(***************************************************************************)
(* C4.  The payload-length assertion is the only way with_data aborts:     *)
(* every call with a payload of 0 to 65534 bytes returns normally.         *)
(***************************************************************************)
C4_OnlyOversizeAborts == status # "alive" => arg.len >= 65535

(***************************************************************************)
(* C5.  PacketBuffer::new() is exactly four zero bytes; its view has       *)
(* length() 0 and an iterator over it yields no packet.                    *)
(***************************************************************************)
C5_NewIsEmpty ==
    (status = "alive" /\ appended = <<>>) =>
        /\ data = <<0, 0, 0, 0>>
        /\ length(data) = 0
        /\ \A k \in 1..Len(iters) : iters[k].yielded = <<>> /\ iters[k].count = 0

C5_Witness ==
    /\ appended = <<>>
    /\ Len(data) = 4
    /\ Len(iters) = 1
    /\ iters[1].ended
    /\ iters[1].yielded = <<>>

(***************************************************************************)
(* C6.  Without padding (alignment 1) the buffer is the little-endian      *)
(* count, then per record in append order the little-endian timestamp, the *)
(* little-endian length and the payload, and nothing else; appending       *)
(* (0x0102030405060708, 90 40 7F) to a new buffer gives the 17 bytes       *)
(* 01 00 00 00 08 07 06 05 04 03 02 01 03 00 90 40 7F.                     *)
(***************************************************************************)
C6_ExactLayout ==
    (align = 1 /\ status = "alive") =>
        /\ data = RefEncode(appended, 1)
        /\ appended = <<[timestamp |-> <<258, 772, 1286, 1800>>, bytes |-> <<144, 64, 127>>]>>
             => data = <<1, 0, 0, 0, 8, 7, 6, 5, 4, 3, 2, 1, 3, 0, 144, 64, 127>>

C6_Witness ==
    /\ align = 1
    /\ Len(appended) = 1
    /\ data = <<1, 0, 0, 0, 8, 7, 6, 5, 4, 3, 2, 1, 3, 0, 144, 64, 127>>

(***************************************************************************)
(* C7.  The list built by PacketBuffer is iteration-equivalent to the list *)
(* the reference encoder builds from the same (timestamp, bytes) pairs for *)
(* the platform's alignment: same count, same records in the same order.   *)
(***************************************************************************)
C7_EquivalentToReference ==
    status = "alive" =>
        /\ length(data) = length(RefEncode(appended, align))
        /\ Iterate(data) = Iterate(RefEncode(appended, align))

(***************************************************************************)
(* C8.  An outstanding iterator (with the packets it returned) refers to   *)
(* the builder's current storage: no with_data has run since the iterator  *)
(* was made, so the allocation and the bytes are those it was made from.   *)
(***************************************************************************)
C8_NoBorrowAcrossAppend ==
    \A k \in 1..Len(iters) :
        /\ iters[k].of_alloc = alloc
        /\ iters[k].of_len = Len(data)
        /\ status = "alive"

C8_Witness ==
    /\ Len(iters) >= 1
    /\ alloc >= 1
    /\ Len(iters[1].yielded) >= 2

(***************************************************************************)
(* C9.  As claimed: try_from maps each known message ID to its own variant *)
(* (IoError carrying the driver device and the error code) and returns     *)
(* Err holding the message ID for every other message ID.                  *)
(***************************************************************************)
VariantOf(id) ==
    CASE id = 1 -> "SetupChanged"
      [] id = 2 -> "ObjectAdded"
      [] id = 3 -> "ObjectRemoved"
      [] id = 4 -> "PropertyChanged"
      [] id = 5 -> "ThruConnectionsChanged"
      [] id = 6 -> "SerialPortOwnerChanged"
      [] id = 7 -> "IoError"

IsOwnVariant(n, r) ==
    /\ r.tag = "Ok"
    /\ r.value.variant = VariantOf(n.messageID)
    /\ n.messageID = 7 =>
          r.value.info = [driver_device |-> n.driverDevice, error_code |-> n.errorCode]

ValidType(t) == t \in {-1, 0, 1, 2, 3, 16, 17, 18, 19}

\* The object type fields a notification with this message ID carries.
TypesValid(n) ==
    CASE n.messageID \in {2, 3} -> ValidType(n.parentType) /\ ValidType(n.childType)
      [] n.messageID = 4 -> ValidType(n.objectType)
      [] OTHER -> TRUE

C9_EveryKnownIdMapsToVariant ==
    result # NoResult =>
        IF notif.messageID \in 1..7
        THEN IsOwnVariant(notif, result)
        ELSE result = Err(notif.messageID)

(***************************************************************************)
(* C9, amended.  try_from maps each known message ID to its own variant,   *)
(* except that an object-added, object-removed or property-changed         *)
(* notification carrying an invalid object type gives Err holding its      *)
(* message ID; every other message ID gives Err holding that message ID.   *)
(***************************************************************************)
C9_KnownIdMapsToVariantUnlessInvalidType ==
    result # NoResult =>
        IF notif.messageID \in 1..7 /\ TypesValid(notif)
        THEN IsOwnVariant(notif, result)
        ELSE result = Err(notif.messageID)

C9_Witness ==
    /\ notif.messageID = 7
    /\ result = Ok([variant |-> "IoError",
                    info |-> [driver_device |-> 2, error_code |-> 123]])

(***************************************************************************)
(* C10.  For an object-added, object-removed or property-changed           *)
(* notification, try_from returns Err holding the notification's message   *)
(* ID when a type field it carries is not a valid ObjectType, and Ok only  *)
(* when all of them are valid.                                             *)
(***************************************************************************)
C10_InvalidObjectTypeIsErr ==
    (result # NoResult /\ notif.messageID \in {2, 3, 4}) =>
        /\ ~TypesValid(notif) => result = Err(notif.messageID)
        /\ result.tag = "Ok" => TypesValid(notif)
        /\ result.tag \in {"Ok", "Err"}

C10_Witness ==
    /\ notif.messageID = 3
    /\ notif.parentType = 65535
    /\ notif.childType = 0
    /\ result = Err(3)

(***************************************************************************)
(* C11.  On a platform whose record alignment is 4, every record that      *)
(* with_data writes starts at a multiple of 4, which is the offset the     *)
(* iterator's stepping rule computes for that record.                      *)
(***************************************************************************)
C11_RecordsWrittenAligned ==
    (align = 4 /\ status = "alive") =>
        \A k \in 1..Len(written) :
            /\ written[k] % 4 = 0
            /\ written[k] = RunIter(iter(data), data).yielded[k]

(***************************************************************************)
(* C12.  A step of the iterator from a record at address a with data       *)
(* length L goes to a + 10 + L rounded up to the record alignment A: with  *)
(* A = 1 exactly a + 10 + L, and with A = 4 (a is then a multiple of 4)    *)
(* past (4 - ((10 + L) mod 4)) mod 4 padding bytes.                        *)
(***************************************************************************)
\* The least multiple of A that is at least x.
RoundUp(x, A) == CHOOSE y \in x..(x + A - 1) : y % A = 0

C12_StepRule ==
    [][ \A k \in 1..Len(iters) :
          (Len(iters') = Len(iters) /\ iters[k].count > 0 /\ iters'[k] # iters[k]) =>
              LET a == iters[k].packet_ptr
                  L == ReadU16(data, a + 8)
              IN  /\ iters'[k].packet_ptr = RoundUp(a + 10 + L, align)
                  /\ align = 1 => iters'[k].packet_ptr = a + 10 + L
                  /\ align = 4 =>
                        /\ a % 4 = 0
                        /\ iters'[k].packet_ptr = a + 10 + L + ((4 - ((10 + L) % 4)) % 4)
      ]_vars

\* A step over a 3-byte record on the alignment-4 platform: 3 padding bytes.
C12_Witness ==
    /\ align = 4
    /\ Len(iters) >= 1
    /\ iters[1].yielded = <<4>>
    /\ Len(appended[1].bytes) = 3
    /\ iters[1].packet_ptr = 20

(***************************************************************************)
(* C13.  An iterator made from a view of length() = N yields exactly N     *)
(* records and then reports the end: its remaining count goes down by 1    *)
(* per yielded record, is never below 0, and once it is 0 a further next() *)
(* reports the end and leaves the current address where it is.             *)
(***************************************************************************)
C13_IteratorYieldsLengthThenEnds ==
    [][ /\ \A k \in 1..Len(iters') :
             /\ iters'[k].count >= 0
             /\ iters'[k].count + Len(iters'[k].yielded) = length(data')
             /\ iters'[k].ended => iters'[k].count = 0
        /\ \A k \in 1..Len(iters) :
             (Len(iters') = Len(iters) /\ iters'[k] # iters[k]) =>
                 IF iters[k].count > 0
                 THEN /\ iters'[k].count = iters[k].count - 1
                      /\ Len(iters'[k].yielded) = Len(iters[k].yielded) + 1
                      /\ ~iters'[k].ended
                 ELSE /\ iters'[k].ended
                      /\ iters'[k].count = 0
                      /\ iters'[k].packet_ptr = iters[k].packet_ptr
                      /\ iters'[k].yielded = iters[k].yielded
      ]_vars

C13_Witness ==
    /\ Len(iters) >= 1
    /\ length(data) = 2
    /\ Len(iters[1].yielded) = 2
    /\ iters[1].count = 0
    /\ iters[1].ended

(***************************************************************************)
(* C14.  iter() is restartable: each call gives a fresh iterator at the    *)
(* first record with remaining count length(), however far earlier         *)
(* iterators have advanced and without touching them; two iterations of    *)
(* the unmodified view yield the same records (the same addresses of the   *)
(* same bytes) in the same order; and neither iter() nor next() changes    *)
(* the view's bytes or count.                                              *)
(***************************************************************************)
C14_IterRestartable ==
    [][ /\ iters' # iters => (data' = data /\ length(data') = length(data))
        /\ Len(iters') = Len(iters) + 1 =>
             /\ iters'[Len(iters')].count = length(data)
             /\ iters'[Len(iters')].packet_ptr = PACKET_LIST_HEADER_SIZE
             /\ iters'[Len(iters')].yielded = <<>>
             /\ \A k \in 1..Len(iters) : iters'[k] = iters[k]
        /\ \A j, k \in 1..Len(iters') :
             \A i \in 1..Len(iters'[j].yielded) :
                 i <= Len(iters'[k].yielded) =>
                     iters'[j].yielded[i] = iters'[k].yielded[i]
      ]_vars

\* Two complete iterations of a list of two records.
C14_Witness ==
    /\ Len(iters) = 2
    /\ iters[1].count = 0
    /\ iters[2].count = 0
    /\ Len(iters[1].yielded) = 2
    /\ iters[2].yielded = iters[1].yielded

(***************************************************************************)
(* C15.  A with_data that returns leaves every byte from offset 4 up to    *)
(* the old size of the buffer as it was: only the 4-byte count and the     *)
(* bytes added at the end (10 + the payload length of them) differ.        *)
(***************************************************************************)
C15_AppendKeepsExistingRecords ==
    [][ appended' # appended =>
            /\ Len(data') = Len(data) + 10 + arg'.len
            /\ \A i \in (PACKET_LIST_HEADER_SIZE + 1)..Len(data) : data'[i] = data[i]
      ]_vars

\* A second, different record appended after a first that is still intact.
C15_Witness ==
    /\ status = "alive"
    /\ Len(appended) = 2
    /\ appended[1] # appended[2]
    /\ SubSeq(data, 5, 14 + Len(appended[1].bytes)) = RefRecord(appended[1])

(***************************************************************************)
(* C16.  After any successful appends every record of the view is present: *)
(* each of the length() records reached by the iterator's stepping rule    *)
(* has its 10-byte header and the payload bytes its length field announces *)
(* entirely inside the buffer, so neither iteration nor data() reads at or *)
(* beyond the buffer's size.                                               *)
(***************************************************************************)
C16_RecordsInsideBuffer ==
    status = "alive" =>
        LET reached == RunIter(iter(data), data).yielded
        IN  /\ Len(reached) = length(data)
            /\ \A k \in 1..Len(reached) :
                  /\ reached[k] + PACKET_HEADER_SIZE <= Len(data)
                  /\ reached[k] + PACKET_HEADER_SIZE + ReadU16(data, reached[k] + 8)
                        <= Len(data)

====
